---- MODULE Spec2Model ----
(***************************************************************************)
(* session-recorder: the remote log tailer (RemoteLogTailer, device.py)    *)
(* with its three kinds of threads -- the caller of start_threads()/stop(),*)
(* the tail threads running run_tail_f_logs() and the heartbeat thread --  *)
(* and the persistence sink the tail threads flush parsed records into     *)
(* (LogHandler.flush, DatabaseStorage.insert_log / get_latest_log).        *)
(*                                                                         *)
(* One step of the model is one access to the shared attributes of the     *)
(* tailer (conn, tail_active, heartbeat_active, backoff_time, log_thread)  *)
(* or to the sink, or one outcome of an external call (Connection(),       *)
(* Connection.run, the sink's query).  time.sleep() is the gap between two *)
(* steps of a thread.  The external world fails a bounded number of times:  *)
(* MaxConnectFaults connection attempts, MaxProbeFaults heartbeat probes,   *)
(* MaxRunFaults follow commands and MaxDbFaults sink queries.              *)
(*                                                                         *)
(* The LogHandler of a follow command (write, flush, parse_line) works on  *)
(* texts that are sequences of lexemes; the remote command produces at     *)
(* most MaxRecords lines, delivered in at most MaxWrites chunks.           *)
(*                                                                         *)
(* Apart from the tailer: `record` and the project's tail details          *)
(* (ConfigSpec), parse_line on lines of at most MaxLineLen lexemes          *)
(* (ParseSpec), remove_ansi_colors on texts of at most MaxTextLen           *)
(* characters (AnsiSpec), and the DatabaseStorage calls on at most          *)
(* MaxFrames frames and MaxRecords logs (StoreSpec).                        *)
(***************************************************************************)
EXTENDS Integers, Sequences, FiniteSets, TLC

\* ---------------------------------------------------------------- bounds
MaxConnectFaults == 2
MaxProbeFaults == 1
MaxRunFaults == 1
MaxDbFaults == 1
MaxRecords == 2
MaxTs == 2
MaxWrites == 2
MaxLineLen == 2
MaxTextLen == 3
MaxFrames == 2
MaxItems == 2
MaxPackets == 2
\* the constructor's max_retries argument (a configuration value)
max_retries == 2

\* self.backoff_time = 5
InitialBackoff == 5

\* process_packet: the least length accepted; the bytes of the frame number and
\* the item count; the bytes of one item (1 + 2 + 24 + 6 * 8)
MinPacketLen == 80
HeaderLen == 5
ObjectLen == 75

\* ---------------------------------------------------------------- threads
MainT == 0
TailIds == 1 .. (MaxProbeFaults + 1)
HbT == MaxProbeFaults + 2
Threads == {MainT} \cup TailIds \cup {HbT}

\* ---------------------------------------------------------------- exceptions
\* except (SSHException, TimeoutError, ConnectionError, UnexpectedExit)
EstablishCaught == {"SSHException", "TimeoutError", "ConnectionError", "UnexpectedExit"}
TailCaught == {"SSHException", "TimeoutError", "ConnectionError", "UnexpectedExit"}
HeartbeatCaught ==
    {"SSHException", "TimeoutError", "ConnectionError", "UnexpectedExit",
     "OSError", "CommandTimedOut", "EOFError"}
\* what Connection.run can raise: the classes the handlers name, and any other
\* exception ("Exception" stands for every class none of the handlers names)
RunRaises == HeartbeatCaught \cup {"Exception"}
\* a failed connection attempt raises one of the connection errors
ConnectRaises == EstablishCaught

VARIABLES
    pc,               \* position of every thread
    ret,              \* where a thread continues after establish_connection()
    retries,          \* establish_connection: the local retries
    delay,            \* the argument of the time.sleep(self.backoff_time) in progress
    loaded,           \* self.backoff_time *= 2: the value read
    conn,             \* self.conn: 0 is None, k is the k-th Connection created
    backoff_time,     \* self.backoff_time
    tail_active,      \* self.tail_active
    heartbeat_active, \* self.heartbeat_active
    log_thread,       \* self.log_thread: 0 is None, else the tail thread
    heartbeat_thread, \* self.heartbeat_thread is set
    joinTarget,       \* stop(): the thread self.log_thread.join() waits for
    sink,             \* the logs table: device timestamps in log_id order
    latest,           \* flush: latest_log (0 is None, else its timestamp)
    cur,              \* flush: timestamp of the parsed line at hand
    connFaults,       \* failed connection attempts so far
    probeFaults,      \* failed heartbeat probes so far
    runFaults,        \* follow commands that raised so far
    dbFaults,         \* failed sink queries so far
    records,          \* records read from the stream so far
    orphanProbes,     \* probe workers still running after their timeout
    signalled,        \* history: tail_active was cleared while the loop ran
    cycle,            \* history: what the current heartbeat cycle has done
    cfo,              \* the LogHandler of the follow command: buffer, partial_line
    fpos,             \* flush: index in self.buffer of the line at hand, 0 outside
    pending,          \* text the remote command has produced and not yet delivered
    writes,           \* calls of LogHandler.write so far
    fed,              \* history: the text written to the handler in this session
    emitted,          \* history: the lines this session has put into the buffer
    inserted,         \* history: which of the emitted lines were inserted
    dropped,          \* history: the partial line the previous session left
    project,          \* the Project: target_log_path, target_docker_container, target_tail_type
    log_file,         \* self.log_file of the tailer
    docker_container, \* self.docker_container of the tailer
    command,          \* run_tail_f_logs: the local command
    log_line,         \* the argument of the calls of parse_line at hand
    calls,            \* what the calls of parse_line on that line returned
    raw_text,         \* the argument of remove_ansi_colors at hand
    stripped,         \* what remove_ansi_colors returned for it
    frames,           \* the frames table: frame_id in insertion order
    log_frame_ids,    \* the logs table: frame_id of each row of the sink
    got,              \* the last call on the DatabaseStorage and what it returned
    objects,          \* the objects table: frame_id and name of each row
    receiver          \* the UDPPacketReceiver: running, count, the listen thread

vars == <<pc, ret, retries, delay, loaded, conn, backoff_time, tail_active,
          heartbeat_active, log_thread, heartbeat_thread, joinTarget, sink,
          latest, cur, connFaults, probeFaults, runFaults, dbFaults, records,
          orphanProbes, signalled, cycle, cfo, fpos, pending, writes, fed,
          emitted, inserted, dropped, project, log_file, docker_container, command,
          log_line, calls, raw_text, stripped, frames, log_frame_ids, got, objects,
          receiver>>

tailerVars == <<conn, backoff_time, tail_active, heartbeat_active, log_thread,
                heartbeat_thread>>
estVars == <<ret, retries, delay, loaded>>
flushVars == <<sink, latest, cur, records, dbFaults>>
handlerVars == <<cfo, fpos, pending, writes, fed, emitted, inserted, dropped>>
configVars == <<project, log_file, docker_container>>
textVars == <<log_line, calls, raw_text, stripped>>
storeVars == <<frames, log_frame_ids, got>>
udpVars == <<objects, receiver>>
threadVars == <<pc, joinTarget, connFaults, probeFaults, runFaults, orphanProbes,
                signalled, cycle, command>>

NoCycle == [timedOut |-> FALSE, resets |-> 0, establishes |-> 0, restarts |-> 0]

\* LogHandler.__init__: self.buffer = []; self.partial_line = ""
EmptyHandler == [buffer |-> <<>>, partial_line |-> <<>>]

\* ---------------------------------------------------------------- record options
\* The values of the options -l/--logpath and -c/--docker-container of
\* `record`: not given (None), given empty, or given with a value.
LogPath == "/var/log/robot.log"
ContainerId == "c0ffee"
LogPathOptions == {"None", "", LogPath}
ContainerOptions == {"None", "", ContainerId}

\* Python truth of an optional string
Truthy(v) == v \notin {"None", ""}

\* Project.__setup_tail_details__: both options are stored, the tail kind is
\* "log" when a log path is given, else "docker" when a container is given,
\* else it stays None.
SetupTailDetails(logpath, container) ==
    [target_log_path |-> logpath,
     target_docker_container |-> container,
     target_tail_type |-> IF Truthy(logpath) THEN "log"
                          ELSE IF Truthy(container) THEN "docker"
                          ELSE "None"]

\* mutant of TailerCreated: the tailer is made whatever the tail kind
TailerCreatedAlways(p) == TRUE

\* cli.py record: `if project.target_tail_type:`
TailerCreated(p) == Truthy(p.target_tail_type)

NoCommand == [program |-> "None", target |-> "None", backlog |-> 0]

\* run_tail_f_logs: the command followed, from self.log_file and
\* self.docker_container
FollowCommand ==
    IF Truthy(log_file)
    THEN [program |-> "tail -f", target |-> log_file, backlog |-> 0]
    ELSE [program |-> "docker logs -f -t", target |-> docker_container, backlog |-> 100]

NoCall == [op |-> "None", value |-> 0, frame_id |-> 0]

NotStripped == [called |-> FALSE, value |-> <<>>]

\* ---------------------------------------------------------------- initial state
\* The attributes of a RemoteLogTailer after __init__, the empty store, and
\* the histories.
Constructed ==
    /\ ret = [t \in Threads |-> "none"]
    /\ retries = [t \in Threads |-> 0]
    /\ delay = [t \in Threads |-> 0]
    /\ loaded = [t \in Threads |-> 0]
    /\ conn = 0
    /\ backoff_time = InitialBackoff
    /\ tail_active = FALSE
    /\ heartbeat_active = FALSE
    /\ log_thread = 0
    /\ heartbeat_thread = FALSE
    /\ joinTarget = 0
    /\ sink = <<>>
    /\ latest = [i \in TailIds |-> 0]
    /\ cur = [i \in TailIds |-> 0]
    /\ connFaults = 0
    /\ probeFaults = 0
    /\ runFaults = 0
    /\ dbFaults = 0
    /\ records = 0
    /\ orphanProbes = 0
    /\ signalled = [i \in TailIds |-> FALSE]
    /\ cycle = NoCycle
    /\ cfo = [i \in TailIds |-> EmptyHandler]
    /\ fpos = [i \in TailIds |-> 0]
    /\ pending = [i \in TailIds |-> <<>>]
    /\ writes = 0
    /\ fed = [i \in TailIds |-> <<>>]
    /\ emitted = [i \in TailIds |-> <<>>]
    /\ inserted = [i \in TailIds |-> <<>>]
    /\ dropped = [i \in TailIds |-> <<>>]
    /\ command = [i \in TailIds |-> NoCommand]
    /\ log_line = <<>>
    /\ calls = <<>>
    /\ raw_text = <<>>
    /\ stripped = NotStripped
    /\ frames = <<>>
    /\ log_frame_ids = <<>>
    /\ got = NoCall
    /\ objects = <<>>
    /\ receiver = [running |-> TRUE, count |-> 0, thread |-> "none", outcome |-> "none"]

\* A tailer made for a log file, before start_threads.
Init ==
    /\ pc = [t \in Threads |-> IF t = MainT THEN "init" ELSE "none"]
    /\ project = SetupTailDetails(LogPath, "None")
    /\ log_file = LogPath
    /\ docker_container = "None"
    /\ Constructed

\* `record` entered with any options: the project is created, no tailer yet.
ConfigInit ==
    /\ pc = [t \in Threads |-> IF t = MainT THEN "cli" ELSE "none"]
    /\ \E logpath \in LogPathOptions, container \in ContainerOptions :
          project = SetupTailDetails(logpath, container)
    /\ log_file = "None"
    /\ docker_container = "None"
    /\ Constructed

\* ---------------------------------------------------------------- helpers
Finished == {"done", "dead"}
EstPcs == {"est_try", "est_sleep", "est_store", "est_fail"}
\* positions inside the while loop of run_tail_f_logs
LoopPcs == {"loop", "run", "flush", "except", "reconnect"} \cup EstPcs

TailAlive(i) == pc[i] \notin ({"none"} \cup Finished)
HbAlive == pc[HbT] \notin ({"none"} \cup Finished)
InEstablish(t) == pc[t] \in EstPcs
Streaming(i) == pc[i] \in {"run", "flush"}

\* self.tail_active = False, seen by the loops running at that moment
Signal == [i \in TailIds |-> signalled[i] \/ pc[i] \in LoopPcs]


\* ---------------------------------------------------------------- establish_connection
\* a call of self.establish_connection() by thread t, continuing at r
CallEstablish(t, r) ==
    /\ pc' = [pc EXCEPT ![t] = "est_try"]
    /\ ret' = [ret EXCEPT ![t] = r]
    /\ retries' = [retries EXCEPT ![t] = 0]

\* while retries < self.max_retries
EstablishLoopGuardOneShort(r) == r < max_retries - 1
EstablishLoopGuard(r) == r < max_retries

\* mutant of AfterEstablish: start_threads ignores the result too
AfterEstablishIgnoresResult(t, ok) == IF t = MainT THEN "spawn_tail" ELSE ret[t]

\* where the caller goes on: start_threads tests the result, the loops ignore it
AfterEstablish(t, ok) ==
    IF t = MainT THEN (IF ok THEN "spawn_tail" ELSE "start_failed") ELSE ret[t]

\* mutant of NewConnection: no handle is stored
NewConnectionNone == conn

\* Connection(...): a new session handle, not None
NewConnection == conn + 1

\* self.conn = Connection(...); return True
EstablishConnects(t) ==
    /\ pc[t] = "est_try"
    /\ EstablishLoopGuard(retries[t])
    /\ conn' = NewConnection
    /\ pc' = [pc EXCEPT ![t] = AfterEstablish(t, TRUE)]
    /\ ret' = [ret EXCEPT ![t] = "none"]
    /\ retries' = [retries EXCEPT ![t] = 0]
    /\ delay' = [delay EXCEPT ![t] = 0]
    /\ UNCHANGED <<loaded, backoff_time, tail_active, heartbeat_active, log_thread,
                   heartbeat_thread, joinTarget, connFaults, probeFaults, runFaults,
                   orphanProbes, signalled, cycle>>
    /\ UNCHANGED flushVars
    /\ UNCHANGED handlerVars
    /\ UNCHANGED <<configVars, textVars, storeVars, udpVars>>
    /\ UNCHANGED command

\* the delay handed to time.sleep(self.backoff_time)
SleepDelay == backoff_time

\* except (...): retries += 1; time.sleep(self.backoff_time)
EstablishFails(t) ==
    /\ pc[t] = "est_try"
    /\ EstablishLoopGuard(retries[t])
    /\ connFaults < MaxConnectFaults
    /\ \E k \in ConnectRaises : k \in EstablishCaught
    /\ connFaults' = connFaults + 1
    /\ UNCHANGED <<probeFaults, runFaults>>
    /\ retries' = [retries EXCEPT ![t] = @ + 1]
    /\ delay' = [delay EXCEPT ![t] = SleepDelay]
    /\ pc' = [pc EXCEPT ![t] = "est_sleep"]
    /\ UNCHANGED <<ret, loaded, joinTarget, orphanProbes, signalled, cycle>>
    /\ UNCHANGED tailerVars
    /\ UNCHANGED flushVars
    /\ UNCHANGED handlerVars
    /\ UNCHANGED <<configVars, textVars, storeVars, udpVars>>
    /\ UNCHANGED command

\* self.backoff_time *= 2: the read
EstablishLoadBackoff(t) ==
    /\ pc[t] = "est_sleep"
    /\ loaded' = [loaded EXCEPT ![t] = backoff_time]
    /\ delay' = [delay EXCEPT ![t] = 0]
    /\ pc' = [pc EXCEPT ![t] = "est_store"]
    /\ UNCHANGED <<ret, retries, joinTarget, connFaults, probeFaults, runFaults,
                   orphanProbes, signalled, cycle>>
    /\ UNCHANGED tailerVars
    /\ UNCHANGED flushVars
    /\ UNCHANGED handlerVars
    /\ UNCHANGED <<configVars, textVars, storeVars, udpVars>>
    /\ UNCHANGED command

\* self.backoff_time *= 2: the write
EstablishStoreBackoff(t) ==
    /\ pc[t] = "est_store"
    /\ backoff_time' = 2 * loaded[t]
    /\ loaded' = [loaded EXCEPT ![t] = 0]
    /\ pc' = [pc EXCEPT ![t] = "est_try"]
    /\ UNCHANGED <<ret, retries, delay, conn, tail_active, heartbeat_active,
                   log_thread, heartbeat_thread, joinTarget, connFaults, probeFaults,
                   runFaults, orphanProbes, signalled, cycle>>
    /\ UNCHANGED flushVars
    /\ UNCHANGED handlerVars
    /\ UNCHANGED <<configVars, textVars, storeVars, udpVars>>
    /\ UNCHANGED command

\* the loop ends with retries exhausted
EstablishExhausted(t) ==
    /\ pc[t] = "est_try"
    /\ ~EstablishLoopGuard(retries[t])
    /\ pc' = [pc EXCEPT ![t] = "est_fail"]
    /\ UNCHANGED <<joinTarget, connFaults, probeFaults, runFaults, orphanProbes,
                   signalled, cycle>>
    /\ UNCHANGED estVars
    /\ UNCHANGED tailerVars
    /\ UNCHANGED flushVars
    /\ UNCHANGED handlerVars
    /\ UNCHANGED <<configVars, textVars, storeVars, udpVars>>
    /\ UNCHANGED command

\* return False
EstablishReturnsFalse(t) ==
    /\ pc[t] = "est_fail"
    /\ pc' = [pc EXCEPT ![t] = AfterEstablish(t, FALSE)]
    /\ ret' = [ret EXCEPT ![t] = "none"]
    /\ retries' = [retries EXCEPT ![t] = 0]
    /\ UNCHANGED <<delay, loaded, joinTarget, connFaults, probeFaults, runFaults,
                   orphanProbes, signalled, cycle>>
    /\ UNCHANGED tailerVars
    /\ UNCHANGED flushVars
    /\ UNCHANGED handlerVars
    /\ UNCHANGED <<configVars, textVars, storeVars, udpVars>>
    /\ UNCHANGED command

\* cli.py record, after project.create: the tailer is made from the project's
\* log path and container when the project has a tail kind, and not otherwise.
Record ==
    /\ pc[MainT] = "cli"
    /\ IF TailerCreated(project)
         THEN /\ log_file' = project.target_log_path
              /\ docker_container' = project.target_docker_container
              /\ pc' = [pc EXCEPT ![MainT] = "init"]
         ELSE /\ pc' = [pc EXCEPT ![MainT] = "no_tailer"]
              /\ UNCHANGED <<log_file, docker_container>>
    /\ UNCHANGED <<project, command, joinTarget, connFaults, probeFaults, runFaults,
                   orphanProbes, signalled, cycle>>
    /\ UNCHANGED estVars
    /\ UNCHANGED tailerVars
    /\ UNCHANGED flushVars
    /\ UNCHANGED handlerVars
    /\ UNCHANGED <<textVars, storeVars, udpVars>>

\* ---------------------------------------------------------------- start_threads
\* if not self.establish_connection(): ... return
StartThreads ==
    /\ pc[MainT] = "init"
    /\ CallEstablish(MainT, "none")
    /\ UNCHANGED <<delay, loaded, joinTarget, connFaults, probeFaults, runFaults,
                   orphanProbes, signalled, cycle>>
    /\ UNCHANGED tailerVars
    /\ UNCHANGED flushVars
    /\ UNCHANGED handlerVars
    /\ UNCHANGED <<configVars, textVars, storeVars, udpVars>>
    /\ UNCHANGED command

\* self.log_thread = threading.Thread(target=self.run_tail_f_logs); start()
StartTailThread ==
    /\ pc[MainT] = "spawn_tail"
    /\ pc[1] = "none"
    /\ log_thread' = 1
    /\ pc' = [pc EXCEPT ![MainT] = "spawn_hb", ![1] = "begin"]
    /\ UNCHANGED <<conn, backoff_time, tail_active, heartbeat_active, heartbeat_thread,
                   joinTarget, connFaults, probeFaults, runFaults, orphanProbes,
                   signalled, cycle>>
    /\ UNCHANGED estVars
    /\ UNCHANGED flushVars
    /\ UNCHANGED handlerVars
    /\ UNCHANGED <<configVars, textVars, storeVars, udpVars>>
    /\ UNCHANGED command

\* self.heartbeat_active = True; self.heartbeat_thread = Thread(...); start()
StartHeartbeatThread ==
    /\ pc[MainT] = "spawn_hb"
    /\ heartbeat_active' = TRUE
    /\ heartbeat_thread' = TRUE
    /\ pc' = [pc EXCEPT ![MainT] = "started", ![HbT] = "loop"]
    /\ UNCHANGED <<conn, backoff_time, tail_active, log_thread, joinTarget, connFaults,
                   probeFaults, runFaults, orphanProbes, signalled, cycle>>
    /\ UNCHANGED estVars
    /\ UNCHANGED flushVars
    /\ UNCHANGED handlerVars
    /\ UNCHANGED <<configVars, textVars, storeVars, udpVars>>
    /\ UNCHANGED command


\* ---------------------------------------------------------------- restart_tail
\* the thread object restart_tail creates: the next one never started
NewTail == CHOOSE i \in TailIds : pc[i] = "none" /\ \A j \in TailIds : pc[j] = "none" => i <= j

\* if not self.tail_active: start a new tail thread
RestartTailStarts == ~tail_active

\* ---------------------------------------------------------------- heartbeat
\* def run_command_with_timeout: what join(timeout) leaves in result
RunCommandWithTimeoutNoResult(alive, r) == IF alive THEN "None" ELSE r
RunCommandWithTimeout(alive, r) == IF alive THEN "ConnectionError" ELSE r

\* mutant of HeartbeatRaised: a successful result raises like a failed one
HeartbeatRaisedOnSuccess(result) ==
    CASE result \in {"ok", "failed"} -> "ConnectionError"
      [] result = "None" -> "AttributeError"
      [] OTHER -> result

\* if isinstance(result, Exception): raise result
\* if result.failed: raise ConnectionError(...)
\* a None result has no attribute failed
HeartbeatRaised(result) ==
    CASE result = "ok" -> "none"
      [] result = "failed" -> "ConnectionError"
      [] result = "None" -> "AttributeError"
      [] OTHER -> result

\* the except clause of the heartbeat loop
HeartbeatHandles(k) == k \in HeartbeatCaught

\* while self.heartbeat_active: if self.conn: ... else: self.establish_connection()
HeartbeatLoop ==
    /\ pc[HbT] = "loop"
    /\ IF ~heartbeat_active
         THEN /\ pc' = [pc EXCEPT ![HbT] = "done"]
              /\ UNCHANGED <<ret, retries>>
         ELSE IF conn # 0
                THEN /\ pc' = [pc EXCEPT ![HbT] = "probe"]
                     /\ UNCHANGED <<ret, retries>>
                ELSE CallEstablish(HbT, "interval")
    /\ UNCHANGED <<delay, loaded, joinTarget, connFaults, probeFaults, runFaults,
                   orphanProbes, signalled, cycle>>
    /\ UNCHANGED tailerVars
    /\ UNCHANGED flushVars
    /\ UNCHANGED handlerVars
    /\ UNCHANGED <<configVars, textVars, storeVars, udpVars>>
    /\ UNCHANGED command

\* the outcome of the probe, through run_command_with_timeout and the try block
HeartbeatProbed(alive, r) ==
    LET k == HeartbeatRaised(RunCommandWithTimeout(alive, r)) IN
    /\ pc' = [pc EXCEPT ![HbT] = IF k = "none" THEN "interval"
                                 ELSE IF HeartbeatHandles(k) THEN "reset" ELSE "dead"]
    /\ cycle' = [cycle EXCEPT !.timedOut = alive]
    /\ orphanProbes' = IF alive THEN orphanProbes + 1 ELSE orphanProbes

\* "echo heartbeat" returns in time with exit status 0
HeartbeatProbeSucceeds ==
    /\ pc[HbT] = "probe"
    /\ HeartbeatProbed(FALSE, "ok")
    /\ UNCHANGED <<joinTarget, connFaults, probeFaults, runFaults, signalled>>
    /\ UNCHANGED estVars
    /\ UNCHANGED tailerVars
    /\ UNCHANGED flushVars
    /\ UNCHANGED handlerVars
    /\ UNCHANGED <<configVars, textVars, storeVars, udpVars>>
    /\ UNCHANGED command

\* the probe returns in time with a failed result, or raises
HeartbeatProbeFails ==
    /\ pc[HbT] = "probe"
    /\ probeFaults < MaxProbeFaults
    /\ probeFaults' = probeFaults + 1
    /\ UNCHANGED <<connFaults, runFaults>>
    /\ \E r \in {"failed"} \cup RunRaises : HeartbeatProbed(FALSE, r)
    /\ UNCHANGED <<joinTarget, signalled>>
    /\ UNCHANGED estVars
    /\ UNCHANGED tailerVars
    /\ UNCHANGED flushVars
    /\ UNCHANGED handlerVars
    /\ UNCHANGED <<configVars, textVars, storeVars, udpVars>>
    /\ UNCHANGED command

\* thread.join(timeout) returns with the worker still alive
HeartbeatProbeTimesOut ==
    /\ pc[HbT] = "probe"
    /\ probeFaults < MaxProbeFaults
    /\ probeFaults' = probeFaults + 1
    /\ UNCHANGED <<connFaults, runFaults>>
    /\ HeartbeatProbed(TRUE, "ok")
    /\ UNCHANGED <<joinTarget, signalled>>
    /\ UNCHANGED estVars
    /\ UNCHANGED tailerVars
    /\ UNCHANGED flushVars
    /\ UNCHANGED handlerVars
    /\ UNCHANGED <<configVars, textVars, storeVars, udpVars>>
    /\ UNCHANGED command

\* a probe worker left behind by a timeout ends
ProbeWorkerEnds ==
    /\ orphanProbes > 0
    /\ orphanProbes' = orphanProbes - 1
    /\ UNCHANGED <<pc, joinTarget, connFaults, probeFaults, runFaults, signalled,
                   cycle>>
    /\ UNCHANGED estVars
    /\ UNCHANGED tailerVars
    /\ UNCHANGED flushVars
    /\ UNCHANGED handlerVars
    /\ UNCHANGED <<configVars, textVars, storeVars, udpVars>>
    /\ UNCHANGED command

\* self.tail_active = False
HeartbeatClearsTail ==
    /\ pc[HbT] = "reset"
    /\ tail_active' = FALSE
    /\ signalled' = Signal
    /\ cycle' = [cycle EXCEPT !.resets = @ + 1]
    /\ pc' = [pc EXCEPT ![HbT] = "sleep"]
    /\ UNCHANGED <<conn, backoff_time, heartbeat_active, log_thread, heartbeat_thread,
                   joinTarget, connFaults, probeFaults, runFaults, orphanProbes>>
    /\ UNCHANGED estVars
    /\ UNCHANGED flushVars
    /\ UNCHANGED handlerVars
    /\ UNCHANGED <<configVars, textVars, storeVars, udpVars>>
    /\ UNCHANGED command

\* time.sleep(self.backoff_time)
HeartbeatSleeps ==
    /\ pc[HbT] = "sleep"
    /\ delay' = [delay EXCEPT ![HbT] = SleepDelay]
    /\ pc' = [pc EXCEPT ![HbT] = "reconnect"]
    /\ UNCHANGED <<ret, retries, loaded, joinTarget, connFaults, probeFaults,
                   runFaults, orphanProbes, signalled, cycle>>
    /\ UNCHANGED tailerVars
    /\ UNCHANGED flushVars
    /\ UNCHANGED handlerVars
    /\ UNCHANGED <<configVars, textVars, storeVars, udpVars>>
    /\ UNCHANGED command

\* self.establish_connection()
HeartbeatReconnects ==
    /\ pc[HbT] = "reconnect"
    /\ CallEstablish(HbT, "restart")
    /\ delay' = [delay EXCEPT ![HbT] = 0]
    /\ cycle' = [cycle EXCEPT !.establishes = @ + 1]
    /\ UNCHANGED <<loaded, joinTarget, connFaults, probeFaults, runFaults,
                   orphanProbes, signalled>>
    /\ UNCHANGED tailerVars
    /\ UNCHANGED flushVars
    /\ UNCHANGED handlerVars
    /\ UNCHANGED <<configVars, textVars, storeVars, udpVars>>
    /\ UNCHANGED command

\* self.restart_tail()
HeartbeatRestartsTail ==
    /\ pc[HbT] = "restart"
    /\ IF RestartTailStarts
         THEN /\ \E i \in TailIds : pc[i] = "none"
              /\ log_thread' = NewTail
              /\ pc' = [pc EXCEPT ![HbT] = "interval", ![NewTail] = "begin"]
              /\ cycle' = [cycle EXCEPT !.restarts = @ + 1]
         ELSE /\ pc' = [pc EXCEPT ![HbT] = "interval"]
              /\ UNCHANGED <<log_thread, cycle>>
    /\ UNCHANGED <<ret, retries, delay, loaded, conn, backoff_time, tail_active,
                   heartbeat_active, heartbeat_thread, joinTarget, connFaults,
                   probeFaults, runFaults, orphanProbes, signalled>>
    /\ UNCHANGED flushVars
    /\ UNCHANGED handlerVars
    /\ UNCHANGED <<configVars, textVars, storeVars, udpVars>>
    /\ UNCHANGED command

\* finally: time.sleep(self.heartbeat_interval)
HeartbeatInterval ==
    /\ pc[HbT] = "interval"
    /\ pc' = [pc EXCEPT ![HbT] = "loop"]
    /\ cycle' = NoCycle
    /\ UNCHANGED <<joinTarget, connFaults, probeFaults, runFaults, orphanProbes,
                   signalled>>
    /\ UNCHANGED estVars
    /\ UNCHANGED tailerVars
    /\ UNCHANGED flushVars
    /\ UNCHANGED handlerVars
    /\ UNCHANGED <<configVars, textVars, storeVars, udpVars>>
    /\ UNCHANGED command


\* ---------------------------------------------------------------- stream text
\* A text is a sequence of lexemes: the line separator, an escape sequence,
\* white space, a timestamp, the text that follows a timestamp, other text.
NL == "\n"
ESC == "<ESC>[0m"
WS == "  "

\* timestamp texts, and the fields the matchers and strptime read in them
Stamps ==
    {"2024-01-01 00:00:01.000", "2024-01-01 00:00:02.000", "2024-13-01 00:00:01.000",
     "2024-01-01T00:00:01.123456789Z", "2024-01-01T00:00:02.123Z"}

StampFields(s) ==
    CASE s = "2024-01-01 00:00:01.000" ->
             [month |-> 1, sep |-> " ", sec |-> 1, frac |-> <<"0", "0", "0">>, z |-> FALSE]
      [] s = "2024-01-01 00:00:02.000" ->
             [month |-> 1, sep |-> " ", sec |-> 2, frac |-> <<"0", "0", "0">>, z |-> FALSE]
      [] s = "2024-13-01 00:00:01.000" ->
             [month |-> 13, sep |-> " ", sec |-> 1, frac |-> <<"0", "0", "0">>, z |-> FALSE]
      [] s = "2024-01-01T00:00:01.123456789Z" ->
             [month |-> 1, sep |-> "T", sec |-> 1,
              frac |-> <<"1", "2", "3", "4", "5", "6", "7", "8", "9">>, z |-> TRUE]
      [] s = "2024-01-01T00:00:02.123Z" ->
             [month |-> 1, sep |-> "T", sec |-> 2, frac |-> <<"1", "2", "3">>, z |-> TRUE]

\* the texts that follow a timestamp, and which matcher's remainder each one is:
\* a " (\w+) (.+)", b "\s\[\w+-\d+\]\s\d+\.\d+\s(INFO|DEBUG|ERROR|WARNING)\s(.*)",
\* c "\s+<date>\s+<time>\s+(\w+)\s+(.+)$", d "\s\[\w+-\d+\]\s(.*)"
Rests ==
    {" INFO msg", " [ros-1] 1.5 INFO msg", " 2024-01-01 00:00:01.0000 INFO msg",
     " [ros-1] msg", " [ros-1] 1.5 WARN msg"}

\* fits: the matchers whose remainder it is; level: the group "level" of the
\* matchers a, b, c; message: the group "message" of each matcher that fits
RestFields(r) ==
    CASE r = " INFO msg" ->
             [fits |-> {"a"}, level |-> "INFO", message |-> [a |-> "msg"]]
      [] r = " [ros-1] 1.5 INFO msg" ->
             [fits |-> {"b", "d"}, level |-> "INFO",
              message |-> [b |-> "msg", d |-> "1.5 INFO msg"]]
      [] r = " 2024-01-01 00:00:01.0000 INFO msg" ->
             [fits |-> {"c"}, level |-> "INFO", message |-> [c |-> "msg"]]
      [] r = " [ros-1] msg" ->
             [fits |-> {"d"}, level |-> "None", message |-> [d |-> "msg"]]
      [] r = " [ros-1] 1.5 WARN msg" ->
             [fits |-> {"d"}, level |-> "None", message |-> [d |-> "1.5 WARN msg"]]

\* the lines the remote command produces
DeviceLines ==
    {<<"2024-01-01 00:00:01.000", " INFO msg">>,
     <<"2024-01-01 00:00:02.000", " INFO msg">>,
     <<"2024-13-01 00:00:01.000", " INFO msg">>,
     <<"abc", "def">>,
     <<ESC, "2024-01-01T00:00:01.123456789Z", " [ros-1] 1.5 INFO msg", ESC>>}

\* ---------------------------------------------------------------- LogHandler.write
\* the index of the first line separator of a text, 0 when there is none
FirstNL(s) ==
    IF \E k \in 1 .. Len(s) : s[k] = NL
      THEN CHOOSE k \in 1 .. Len(s) : s[k] = NL /\ \A j \in 1 .. (k - 1) : s[j] # NL
      ELSE 0

\* string.split("\n")
RECURSIVE Split(_)
Split(s) ==
    IF FirstNL(s) = 0
      THEN <<s>>
      ELSE <<SubSeq(s, 1, FirstNL(s) - 1)>> \o Split(SubSeq(s, FirstNL(s) + 1, Len(s)))

\* string.endswith("\n")
EndsWithNL(s) == Len(s) > 0 /\ s[Len(s)] = NL

\* write: string = self.partial_line + string; split; the last piece is kept as
\* partial_line when the string does not end with "\n"; the buffer is extended
WriteNeverKeepsPartial(h, string) ==
    [buffer |-> h.buffer \o Split(h.partial_line \o string), partial_line |-> <<>>]
Write(h, string) ==
    LET str == h.partial_line \o string
        string_split == Split(str)
    IN  IF ~EndsWithNL(str)
          THEN [buffer |-> h.buffer \o SubSeq(string_split, 1, Len(string_split) - 1),
                partial_line |-> string_split[Len(string_split)]]
          ELSE [buffer |-> h.buffer \o string_split, partial_line |-> <<>>]

\* ---------------------------------------------------------------- LogHandler.parse_line
\* ansi_escape.sub("", string)
RemoveAnsiColors(line) == SelectSeq(line, LAMBDA c : c # ESC)

\* str.strip()
RECURSIVE Strip(_)
Strip(line) ==
    IF line = <<>> THEN line
    ELSE IF line[1] = WS THEN Strip(SubSeq(line, 2, Len(line)))
    ELSE IF line[Len(line)] = WS THEN Strip(SubSeq(line, 1, Len(line) - 1))
    ELSE line

\* mutant of Patterns: the list in the opposite order
PatternsReversed == <<"d", "c", "b", "a">>

\* the patterns of extract_log_features, in the order of the list
Patterns == <<"a", "b", "c", "d">>

\* re.match(pattern, log_line)
PatternMatches(p, line) ==
    /\ Len(line) >= 2
    /\ line[1] \in Stamps
    /\ line[2] \in Rests
    /\ p \in RestFields(line[2]).fits
    /\ LET f == StampFields(line[1])
       IN  CASE p = "a" -> f.sep = " " /\ Len(f.frac) = 3 /\ ~f.z
             [] p = "b" -> f.sep = "T" /\ Len(f.frac) >= 1 /\ f.z
             [] p = "c" -> f.sep = "T" /\ Len(f.frac) = 9 /\ f.z
             [] p = "d" -> f.sep = "T" /\ Len(f.frac) >= 1 /\ f.z

NoFeatures == [pattern |-> "none", timestamp |-> "", level |-> "None", message |-> <<>>]

\* for pattern in patterns: match = re.match(...); if match: return groupdict
ExtractLogFeatures(line) ==
    IF \E k \in 1 .. Len(Patterns) : PatternMatches(Patterns[k], line)
      THEN LET k == CHOOSE n \in 1 .. Len(Patterns) :
                        /\ PatternMatches(Patterns[n], line)
                        /\ \A m \in 1 .. (n - 1) : ~PatternMatches(Patterns[m], line)
           IN  [pattern |-> Patterns[k], timestamp |-> line[1],
                level |-> IF Patterns[k] = "d" THEN "None" ELSE RestFields(line[2]).level,
                message |-> <<RestFields(line[2]).message[Patterns[k]]>>
                              \o SubSeq(line, 3, Len(line))]
      ELSE NoFeatures

Digits == <<"0", "1", "2", "3", "4", "5", "6", "7", "8", "9">>
IsDigit(c) == \E k \in 1 .. 10 : Digits[k] = c
DigitValue(c) == (CHOOSE k \in 1 .. 10 : Digits[k] = c) - 1

\* "%f": one to six digits, read as a fraction of a second in microseconds
RECURSIVE Microseconds(_, _)
Microseconds(ds, k) ==
    IF k > 6 THEN 0
    ELSE (IF k <= Len(ds) THEN DigitValue(ds[k]) * 10 ^ (6 - k) ELSE 0)
         + Microseconds(ds, k + 1)

\* datetime.strptime(timestamp, "%Y-%m-%d<sep>%H:%M:%S.%f") succeeds
StrptimeAccepts(f, fraction, sep) ==
    /\ f.sep = sep
    /\ f.month \in 1 .. 12
    /\ Len(fraction) \in 1 .. 6
    /\ \A k \in 1 .. Len(fraction) : IsDigit(fraction[k])

\* the ValueError that leaves convert_to_datetime
ValueError == -1

\* convert_to_datetime: the text after "." is cut to 6 characters, then strptime
\* with the T form and, on ValueError, strptime with the space form
ConvertToDatetime(timestamp) ==
    LET f == StampFields(timestamp)
        tail == f.frac \o (IF f.z THEN <<"Z">> ELSE <<>>)
        nanoseconds == SubSeq(tail, 1, IF Len(tail) < 6 THEN Len(tail) ELSE 6)
    IN  IF StrptimeAccepts(f, nanoseconds, "T") \/ StrptimeAccepts(f, nanoseconds, " ")
          THEN f.sec * 1000000 + Microseconds(nanoseconds, 1)
          ELSE ValueError

NoLog == [kind |-> "None", pattern |-> "none", timestamp |-> 0, level |-> "None",
          message |-> <<>>]

\* mutant of ParseLine: the result depends on the content of the sink
ParseLineReadsSink(line) == IF sink = <<>> THEN NoLog ELSE [NoLog EXCEPT !.level = "DEBUG"]

\* parse_line: None, a Log (with the matcher that gave its features), or the
\* exception of Log.__init__
ParseLine(line) ==
    LET clean_line == Strip(RemoveAnsiColors(line))
        log_features == ExtractLogFeatures(clean_line)
    IN  IF log_features.pattern = "none" THEN NoLog
        ELSE IF ConvertToDatetime(log_features.timestamp) = ValueError
               THEN [kind |-> "ValueError", pattern |-> log_features.pattern,
                     timestamp |-> 0, level |-> "None", message |-> <<>>]
        ELSE [kind |-> "Log",
              pattern |-> log_features.pattern,
              timestamp |-> ConvertToDatetime(log_features.timestamp),
              level |-> IF log_features.level = "None" THEN "DEBUG"
                        ELSE log_features.level,
              message |-> log_features.message]

\* ---------------------------------------------------------------- run_tail_f_logs
\* command selection; self.tail_active = True
TailBegins(i) ==
    /\ pc[i] = "begin"
    /\ tail_active' = TRUE
    /\ command' = [command EXCEPT ![i] = FollowCommand]
    /\ pc' = [pc EXCEPT ![i] = "loop"]
    /\ UNCHANGED <<conn, backoff_time, heartbeat_active, log_thread, heartbeat_thread,
                   joinTarget, connFaults, probeFaults, runFaults, orphanProbes,
                   signalled, cycle>>
    /\ UNCHANGED estVars
    /\ UNCHANGED flushVars
    /\ UNCHANGED handlerVars
    /\ UNCHANGED <<configVars, textVars, storeVars, udpVars>>

\* mutant of TailLoopGuard: the loop is left at every test
TailLoopGuardNever(i) == FALSE

\* while self.tail_active
TailLoopGuard(i) == tail_active

\* cfo = LogHandler(self.db), created for every run of the follow command
FollowCommandHandlerReused(i) == cfo[i]
FollowCommandHandler(i) == EmptyHandler

\* while self.tail_active: if self.conn: c.run(command, out_stream=LogHandler(db))
\* else: raise ConnectionError
TailLoop(i) ==
    /\ pc[i] = "loop"
    /\ IF ~TailLoopGuard(i)
         THEN /\ pc' = [pc EXCEPT ![i] = "done"]
              /\ signalled' = [signalled EXCEPT ![i] = FALSE]
         ELSE /\ pc' = [pc EXCEPT ![i] = IF conn # 0 THEN "run" ELSE "except"]
              /\ UNCHANGED signalled
    /\ IF TailLoopGuard(i) /\ conn # 0
         THEN /\ cfo' = [cfo EXCEPT ![i] = FollowCommandHandler(i)]
              /\ dropped' = [dropped EXCEPT ![i] = cfo[i].partial_line]
              /\ pending' = [pending EXCEPT ![i] = <<>>]
              /\ fed' = [fed EXCEPT ![i] = <<>>]
              /\ emitted' = [emitted EXCEPT ![i] = <<>>]
              /\ inserted' = [inserted EXCEPT ![i] = <<>>]
              /\ UNCHANGED <<fpos, writes>>
         ELSE UNCHANGED handlerVars
    /\ UNCHANGED <<joinTarget, connFaults, probeFaults, runFaults, orphanProbes, cycle>>
    /\ UNCHANGED estVars
    /\ UNCHANGED tailerVars
    /\ UNCHANGED flushVars
    /\ UNCHANGED <<configVars, textVars, storeVars, udpVars>>
    /\ UNCHANGED command

\* the follow command ends: "Tail command finished", back to the loop test
TailRunReturns(i) ==
    /\ pc[i] = "run"
    /\ pc' = [pc EXCEPT ![i] = "loop"]
    /\ UNCHANGED <<joinTarget, connFaults, probeFaults, runFaults, orphanProbes,
                   signalled, cycle>>
    /\ UNCHANGED estVars
    /\ UNCHANGED tailerVars
    /\ UNCHANGED flushVars
    /\ UNCHANGED handlerVars
    /\ UNCHANGED <<configVars, textVars, storeVars, udpVars>>
    /\ UNCHANGED command

\* the except clause of the tail loop
TailHandles(k) == k \in TailCaught

\* c.run raises
TailRunRaises(i) ==
    /\ pc[i] = "run"
    /\ runFaults < MaxRunFaults
    /\ runFaults' = runFaults + 1
    /\ UNCHANGED <<connFaults, probeFaults>>
    /\ \E k \in RunRaises :
          /\ pc' = [pc EXCEPT ![i] = IF TailHandles(k) THEN "except" ELSE "dead"]
          /\ signalled' = [signalled EXCEPT ![i] = IF TailHandles(k) THEN @ ELSE FALSE]
    /\ UNCHANGED <<joinTarget, orphanProbes, cycle>>
    /\ UNCHANGED estVars
    /\ UNCHANGED tailerVars
    /\ UNCHANGED flushVars
    /\ UNCHANGED handlerVars
    /\ UNCHANGED <<configVars, textVars, storeVars, udpVars>>
    /\ UNCHANGED command

\* except (...): time.sleep(self.backoff_time)
TailSleeps(i) ==
    /\ pc[i] = "except"
    /\ delay' = [delay EXCEPT ![i] = SleepDelay]
    /\ pc' = [pc EXCEPT ![i] = "reconnect"]
    /\ UNCHANGED <<ret, retries, loaded, joinTarget, connFaults, probeFaults,
                   runFaults, orphanProbes, signalled, cycle>>
    /\ UNCHANGED tailerVars
    /\ UNCHANGED flushVars
    /\ UNCHANGED handlerVars
    /\ UNCHANGED <<configVars, textVars, storeVars, udpVars>>
    /\ UNCHANGED command

\* self.establish_connection()
TailReconnects(i) ==
    /\ pc[i] = "reconnect"
    /\ CallEstablish(i, "loop")
    /\ delay' = [delay EXCEPT ![i] = 0]
    /\ UNCHANGED <<loaded, joinTarget, connFaults, probeFaults, runFaults,
                   orphanProbes, signalled, cycle>>
    /\ UNCHANGED tailerVars
    /\ UNCHANGED flushVars
    /\ UNCHANGED handlerVars
    /\ UNCHANGED <<configVars, textVars, storeVars, udpVars>>
    /\ UNCHANGED command

\* ---------------------------------------------------------------- LogHandler.flush
\* mutant of GetLatestLog: the last row also when the query raises
GetLatestLogDespiteFailure(failed) == IF sink = <<>> THEN 0 ELSE sink[Len(sink)]

\* DatabaseStorage.get_latest_log: the row with the greatest log_id, None when
\* the table is empty and None when the query raises
GetLatestLog(failed) == IF failed \/ sink = <<>> THEN 0 ELSE sink[Len(sink)]

\* the greatest element of a non-empty sequence of numbers
Greatest(q) == CHOOSE x \in {q[k] : k \in 1 .. Len(q)} : \A k \in 1 .. Len(q) : q[k] <= x

\* DatabaseStorage.get_latest_frame_number: the frame_id of the row with the
\* greatest frame_id; None (0) when the table is empty (frame is None, the
\* AttributeError of frame.frame_id is caught) and when the query raises
GetLatestFrameNumber(failed) == IF failed \/ frames = <<>> THEN 0 ELSE Greatest(frames)

\* if latest_log: if timestamp > latest_log.timestamp: insert  else: insert
ShouldInsert(ts, last) == last = 0 \/ ts > last

\* flush, for one parsed line of the stream: latest_log = self.db.get_latest_log()
FlushReadsLatest(i) ==
    /\ pc[i] = "run"
    /\ records < MaxRecords
    /\ records' = records + 1
    /\ \E ts \in 1 .. MaxTs : cur' = [cur EXCEPT ![i] = ts]
    /\ latest' = [latest EXCEPT ![i] = GetLatestLog(FALSE)]
    /\ pc' = [pc EXCEPT ![i] = "flush"]
    /\ UNCHANGED <<sink, dbFaults, joinTarget, connFaults, probeFaults, runFaults,
                   orphanProbes, signalled, cycle>>
    /\ UNCHANGED estVars
    /\ UNCHANGED tailerVars
    /\ UNCHANGED handlerVars
    /\ UNCHANGED <<configVars, textVars, storeVars, udpVars>>
    /\ UNCHANGED command

\* the same, with the query failing inside get_latest_log
FlushReadFails(i) ==
    /\ pc[i] = "run"
    /\ records < MaxRecords
    /\ dbFaults < MaxDbFaults
    /\ records' = records + 1
    /\ dbFaults' = dbFaults + 1
    /\ \E ts \in 1 .. MaxTs : cur' = [cur EXCEPT ![i] = ts]
    /\ latest' = [latest EXCEPT ![i] = GetLatestLog(TRUE)]
    /\ pc' = [pc EXCEPT ![i] = "flush"]
    /\ UNCHANGED <<sink, joinTarget, connFaults, probeFaults, runFaults, orphanProbes,
                   signalled, cycle>>
    /\ UNCHANGED estVars
    /\ UNCHANGED tailerVars
    /\ UNCHANGED handlerVars
    /\ UNCHANGED <<configVars, textVars, storeVars, udpVars>>
    /\ UNCHANGED command

\* self.db.insert_log(...) when the record is newer than latest_log
FlushInserts(i) ==
    /\ pc[i] = "flush"
    /\ sink' = IF ShouldInsert(cur[i], latest[i]) THEN Append(sink, cur[i]) ELSE sink
    /\ log_frame_ids' = IF ShouldInsert(cur[i], latest[i])
                          THEN Append(log_frame_ids, GetLatestFrameNumber(FALSE))
                          ELSE log_frame_ids
    /\ cur' = [cur EXCEPT ![i] = 0]
    /\ latest' = [latest EXCEPT ![i] = 0]
    /\ pc' = [pc EXCEPT ![i] = "run"]
    /\ UNCHANGED <<records, dbFaults, joinTarget, connFaults, probeFaults, runFaults,
                   orphanProbes, signalled, cycle>>
    /\ UNCHANGED estVars
    /\ UNCHANGED tailerVars
    /\ UNCHANGED handlerVars
    /\ UNCHANGED <<configVars, textVars, frames, got, udpVars>>
    /\ UNCHANGED command

\* ---------------------------------------------------------------- the stream of a follow command
\* the remote command produces one more line
RemoteEmits(i) ==
    /\ pc[i] = "run"
    /\ records < MaxRecords
    /\ records' = records + 1
    /\ \E line \in DeviceLines :
          pending' = [pending EXCEPT ![i] = @ \o line \o <<NL>>]
    /\ UNCHANGED <<pc, sink, latest, cur, dbFaults, joinTarget, connFaults, probeFaults,
                   runFaults, orphanProbes, signalled, cycle>>
    /\ UNCHANGED <<cfo, fpos, writes, fed, emitted, inserted, dropped>>
    /\ UNCHANGED estVars
    /\ UNCHANGED tailerVars
    /\ UNCHANGED <<configVars, textVars, storeVars, udpVars>>
    /\ UNCHANGED command

\* c.run hands the next bytes of the stream to out_stream.write, then calls
\* out_stream.flush
HandlerWrite(i) ==
    /\ pc[i] = "run"
    /\ writes < MaxWrites
    /\ writes' = writes + 1
    /\ \E n \in 1 .. Len(pending[i]) :
          LET string == SubSeq(pending[i], 1, n)
              h == Write(cfo[i], string)
          IN  /\ cfo' = [cfo EXCEPT ![i] = h]
              /\ pending' = [pending EXCEPT ![i] = SubSeq(@, n + 1, Len(@))]
              /\ fed' = [fed EXCEPT ![i] = @ \o string]
              /\ emitted' = [emitted EXCEPT ![i] =
                                @ \o SubSeq(h.buffer, Len(cfo[i].buffer) + 1, Len(h.buffer))]
    /\ fpos' = [fpos EXCEPT ![i] = 1]
    /\ pc' = [pc EXCEPT ![i] = "flush"]
    /\ UNCHANGED <<inserted, dropped, joinTarget, connFaults, probeFaults, runFaults,
                   orphanProbes, signalled, cycle>>
    /\ UNCHANGED estVars
    /\ UNCHANGED tailerVars
    /\ UNCHANGED flushVars
    /\ UNCHANGED <<configVars, textVars, storeVars, udpVars>>
    /\ UNCHANGED command

\* for line in self.buffer: the index of the line of the k-th iteration
FlushIndexReversed(h, k) == Len(h.buffer) + 1 - k
FlushIndex(h, k) == k

\* where the lines of the buffer stand among the lines of the session
BufferBase(i) == Len(emitted[i]) - Len(cfo[i].buffer)

\* one iteration of flush on a line parse_line returns a Log or None for;
\* failed: the query of get_latest_log raises
FlushIteration(i, failed) ==
    /\ pc[i] = "flush"
    /\ fpos[i] \in 1 .. Len(cfo[i].buffer)
    /\ LET n == FlushIndex(cfo[i], fpos[i])
           parsed_line == ParseLine(cfo[i].buffer[n])
           latest_log == GetLatestLog(failed)
       IN  /\ parsed_line.kind # "ValueError"
           /\ failed => parsed_line.kind = "Log"
           /\ IF parsed_line.kind = "Log" /\ ShouldInsert(parsed_line.timestamp, latest_log)
                THEN /\ sink' = Append(sink, parsed_line.timestamp)
                     /\ log_frame_ids' = Append(log_frame_ids, GetLatestFrameNumber(FALSE))
                     /\ inserted' = [inserted EXCEPT ![i] = Append(@, BufferBase(i) + n)]
                ELSE UNCHANGED <<sink, inserted, log_frame_ids>>
    /\ fpos' = [fpos EXCEPT ![i] = @ + 1]
    /\ UNCHANGED <<pc, latest, cur, records, joinTarget, connFaults, probeFaults,
                   runFaults, orphanProbes, signalled, cycle>>
    /\ UNCHANGED <<cfo, pending, writes, fed, emitted, dropped>>
    /\ UNCHANGED estVars
    /\ UNCHANGED tailerVars
    /\ UNCHANGED <<configVars, textVars, frames, got, udpVars>>
    /\ UNCHANGED command

FlushLine(i) ==
    /\ FlushIteration(i, FALSE)
    /\ UNCHANGED dbFaults

FlushLineReadFails(i) ==
    /\ dbFaults < MaxDbFaults
    /\ dbFaults' = dbFaults + 1
    /\ FlushIteration(i, TRUE)

\* parse_line raises: the exception leaves flush and write's caller, the rest
\* of the buffer is not processed and the buffer is not cleared; the exception
\* c.run ends with is the ValueError or a wrapper of it
FlushRaises(i) ==
    /\ pc[i] = "flush"
    /\ fpos[i] \in 1 .. Len(cfo[i].buffer)
    /\ ParseLine(cfo[i].buffer[FlushIndex(cfo[i], fpos[i])]).kind = "ValueError"
    /\ pc' = [pc EXCEPT ![i] = IF TailHandles("ValueError") THEN "except" ELSE "dead"]
    /\ signalled' = [signalled EXCEPT ![i] = IF TailHandles("ValueError") THEN @ ELSE FALSE]
    /\ UNCHANGED <<joinTarget, connFaults, probeFaults, runFaults, orphanProbes, cycle>>
    /\ UNCHANGED estVars
    /\ UNCHANGED tailerVars
    /\ UNCHANGED flushVars
    /\ UNCHANGED handlerVars
    /\ UNCHANGED <<configVars, textVars, storeVars, udpVars>>
    /\ UNCHANGED command

\* self.buffer = []
FlushEnds(i) ==
    /\ pc[i] = "flush"
    /\ fpos[i] > Len(cfo[i].buffer)
    /\ cfo' = [cfo EXCEPT ![i].buffer = <<>>]
    /\ fpos' = [fpos EXCEPT ![i] = 0]
    /\ pc' = [pc EXCEPT ![i] = "run"]
    /\ UNCHANGED <<pending, writes, fed, emitted, inserted, dropped, joinTarget,
                   connFaults, probeFaults, runFaults, orphanProbes, signalled, cycle>>
    /\ UNCHANGED estVars
    /\ UNCHANGED tailerVars
    /\ UNCHANGED flushVars
    /\ UNCHANGED <<configVars, textVars, storeVars, udpVars>>
    /\ UNCHANGED command

\* ---------------------------------------------------------------- stop
\* self.heartbeat_active = False; self.tail_active = False
StopClearsSignals ==
    /\ pc[MainT] \in {"started", "start_failed"}
    /\ heartbeat_active' = FALSE
    /\ tail_active' = FALSE
    /\ signalled' = Signal
    /\ pc' = [pc EXCEPT ![MainT] = "stop_log"]
    /\ UNCHANGED <<conn, backoff_time, log_thread, heartbeat_thread, joinTarget,
                   connFaults, probeFaults, runFaults, orphanProbes, cycle>>
    /\ UNCHANGED estVars
    /\ UNCHANGED flushVars
    /\ UNCHANGED handlerVars
    /\ UNCHANGED <<configVars, textVars, storeVars, udpVars>>
    /\ UNCHANGED command

\* if self.log_thread: self.log_thread.join() -- the thread object is read here
StopReadsLogThread ==
    /\ pc[MainT] = "stop_log"
    /\ joinTarget' = log_thread
    /\ pc' = [pc EXCEPT ![MainT] = "join_log"]
    /\ UNCHANGED <<connFaults, probeFaults, runFaults, orphanProbes, signalled, cycle>>
    /\ UNCHANGED estVars
    /\ UNCHANGED tailerVars
    /\ UNCHANGED flushVars
    /\ UNCHANGED handlerVars
    /\ UNCHANGED <<configVars, textVars, storeVars, udpVars>>
    /\ UNCHANGED command

\* join() returns once that thread has ended
StopJoinedLogThread ==
    /\ pc[MainT] = "join_log"
    /\ joinTarget = 0 \/ pc[joinTarget] \in Finished
    /\ joinTarget' = 0
    /\ pc' = [pc EXCEPT ![MainT] = "join_hb"]
    /\ UNCHANGED <<connFaults, probeFaults, runFaults, orphanProbes, signalled, cycle>>
    /\ UNCHANGED estVars
    /\ UNCHANGED tailerVars
    /\ UNCHANGED flushVars
    /\ UNCHANGED handlerVars
    /\ UNCHANGED <<configVars, textVars, storeVars, udpVars>>
    /\ UNCHANGED command

\* if self.heartbeat_thread: self.heartbeat_thread.join()
\* if self.conn: self.conn.close(); stop() returns
StopJoinedHeartbeat ==
    /\ pc[MainT] = "join_hb"
    /\ ~heartbeat_thread \/ pc[HbT] \in Finished
    /\ pc' = [pc EXCEPT ![MainT] = "stopped"]
    /\ UNCHANGED <<joinTarget, connFaults, probeFaults, runFaults, orphanProbes,
                   signalled, cycle>>
    /\ UNCHANGED estVars
    /\ UNCHANGED tailerVars
    /\ UNCHANGED flushVars
    /\ UNCHANGED handlerVars
    /\ UNCHANGED <<configVars, textVars, storeVars, udpVars>>
    /\ UNCHANGED command

\* if self.conn: self.conn.close() raises: nothing in stop() catches it
StopCloseRaises ==
    /\ pc[MainT] = "join_hb"
    /\ ~heartbeat_thread \/ pc[HbT] \in Finished
    /\ conn # 0
    /\ pc' = [pc EXCEPT ![MainT] = "stop_raised"]
    /\ UNCHANGED <<joinTarget, connFaults, probeFaults, runFaults, orphanProbes,
                   signalled, cycle>>
    /\ UNCHANGED estVars
    /\ UNCHANGED tailerVars
    /\ UNCHANGED flushVars
    /\ UNCHANGED handlerVars
    /\ UNCHANGED <<configVars, textVars, storeVars, udpVars>>
    /\ UNCHANGED command

\* ---------------------------------------------------------------- calls of parse_line
\* the sequences over S of length at most n
SeqsUpTo(S, n) == UNION {[1 .. k -> S] : k \in 0 .. n}

\* the lines parse_line is called with: the lines of the device, and every
\* short line of lexemes (a line has no separator inside)
ParseInputs == DeviceLines \cup SeqsUpTo({ESC, WS, "abc"} \cup Stamps \cup Rests, MaxLineLen)

\* a line is taken, to be parsed
TakeLine ==
    /\ log_line = <<>> /\ calls = <<>>
    /\ \E l \in ParseInputs : log_line' = l
    /\ calls' = <<>>
    /\ UNCHANGED <<raw_text, stripped>>
    /\ UNCHANGED threadVars
    /\ UNCHANGED estVars
    /\ UNCHANGED tailerVars
    /\ UNCHANGED flushVars
    /\ UNCHANGED handlerVars
    /\ UNCHANGED <<configVars, storeVars, udpVars>>

\* lh.parse_line(line), on a handler whose store holds the sink
CallParseLine ==
    /\ Len(calls) < 2
    /\ calls' = Append(calls, ParseLine(log_line))
    /\ UNCHANGED <<log_line, raw_text, stripped>>
    /\ UNCHANGED threadVars
    /\ UNCHANGED estVars
    /\ UNCHANGED tailerVars
    /\ UNCHANGED flushVars
    /\ UNCHANGED handlerVars
    /\ UNCHANGED <<configVars, storeVars, udpVars>>

\* ---------------------------------------------------------------- remove_ansi_colors, by characters
\* The characters of a text given to remove_ansi_colors, and the classes of
\* the expression \x1B[@-_][0-?]*[ -/]*[@-~] they are in.
AnsiChars == {"ESC", "[", "M", "0", " ", "m"}
IntroducerBytes == {"[", "M"}
ParameterBytes == {"0"}
IntermediateBytes == {" "}
FinalBytes == {"[", "M", "m"}

AnsiTexts == SeqsUpTo(AnsiChars, MaxTextLen)

\* the first index from p on whose character is not in the class
RECURSIVE SkipClass(_, _, _)
SkipClass(s, p, class) ==
    IF p <= Len(s) /\ s[p] \in class THEN SkipClass(s, p + 1, class) ELSE p

\* the index of the last character of the match of
\* \x1B<introducer>[0-?]*[ -/]*[@-~] that starts at p, 0 when there is none
EscapeEnd(s, p, introducers) ==
    IF p + 1 <= Len(s) /\ s[p] = "ESC" /\ s[p + 1] \in introducers
      THEN LET q == SkipClass(s, SkipClass(s, p + 2, ParameterBytes), IntermediateBytes)
           IN  IF q <= Len(s) /\ s[q] \in FinalBytes THEN q ELSE 0
      ELSE 0

\* sub("", string) from p on: the matches, left to right, are taken out
RECURSIVE EscapeSub(_, _, _)
EscapeSub(s, p, introducers) ==
    IF p > Len(s) THEN <<>>
    ELSE IF EscapeEnd(s, p, introducers) # 0
           THEN EscapeSub(s, EscapeEnd(s, p, introducers) + 1, introducers)
    ELSE <<s[p]>> \o EscapeSub(s, p + 1, introducers)

\* ansi_escape.sub("", string) with ansi_escape = \x1B[@-_][0-?]*[ -/]*[@-~]
AnsiEscapeSub(string) == EscapeSub(string, 1, IntroducerBytes)

\* a text is taken, to be stripped
TakeText ==
    /\ raw_text = <<>> /\ ~stripped.called
    /\ \E t \in AnsiTexts : raw_text' = t
    /\ stripped' = NotStripped
    /\ UNCHANGED <<log_line, calls>>
    /\ UNCHANGED threadVars
    /\ UNCHANGED estVars
    /\ UNCHANGED tailerVars
    /\ UNCHANGED flushVars
    /\ UNCHANGED handlerVars
    /\ UNCHANGED <<configVars, storeVars, udpVars>>

\* lh.remove_ansi_colors(string)
CallRemoveAnsiColors ==
    /\ ~stripped.called
    /\ stripped' = [called |-> TRUE, value |-> AnsiEscapeSub(raw_text)]
    /\ UNCHANGED <<log_line, calls, raw_text>>
    /\ UNCHANGED threadVars
    /\ UNCHANGED estVars
    /\ UNCHANGED tailerVars
    /\ UNCHANGED flushVars
    /\ UNCHANGED handlerVars
    /\ UNCHANGED <<configVars, storeVars, udpVars>>

\* ---------------------------------------------------------------- DatabaseStorage
\* insert_log(frame_id, timestamp, ...): a row is added to logs; the frame
\* reference may be None (0) and is not checked against frames
InsertLog(frame_id, timestamp) ==
    /\ Len(sink) < MaxRecords
    /\ sink' = Append(sink, timestamp)
    /\ log_frame_ids' = Append(log_frame_ids, frame_id)
    /\ got' = [op |-> "insert_log", value |-> 0, frame_id |-> 0]
    /\ UNCHANGED <<latest, cur, records, dbFaults, frames>>
    /\ UNCHANGED threadVars
    /\ UNCHANGED estVars
    /\ UNCHANGED tailerVars
    /\ UNCHANGED handlerVars
    /\ UNCHANGED <<configVars, textVars, udpVars>>

\* the frame_id the database gives a frame inserted without one
NextFrameId == IF frames = <<>> THEN 1 ELSE Greatest(frames) + 1

\* insert_frame(timestamp, frame_id=None): the id is the custom one or the one
\* the database generates; the id is returned; an id already in the table
\* fails the commit, which is logged, and None is returned
InsertFrame(frame_id) ==
    /\ Len(frames) < MaxFrames
    /\ LET id == IF frame_id = 0 THEN NextFrameId ELSE frame_id
       IN  IF \E k \in 1 .. Len(frames) : frames[k] = id
             THEN /\ got' = [op |-> "insert_frame", value |-> 0, frame_id |-> 0]
                  /\ UNCHANGED frames
             ELSE /\ frames' = Append(frames, id)
                  /\ got' = [op |-> "insert_frame", value |-> id, frame_id |-> 0]
    /\ UNCHANGED log_frame_ids
    /\ UNCHANGED threadVars
    /\ UNCHANGED estVars
    /\ UNCHANGED tailerVars
    /\ UNCHANGED flushVars
    /\ UNCHANGED handlerVars
    /\ UNCHANGED <<configVars, textVars, udpVars>>

\* what get_latest_log returns: the timestamp and the frame reference of the
\* row, None (0, 0) when there is no row and when the query raised
LatestLogReturned(failed) ==
    [op |-> "get_latest_log",
     value |-> GetLatestLog(failed),
     frame_id |-> IF failed \/ sink = <<>> THEN 0 ELSE log_frame_ids[Len(log_frame_ids)]]

\* db.get_latest_log()
CallGetLatestLog ==
    /\ got' = LatestLogReturned(FALSE)
    /\ UNCHANGED <<frames, log_frame_ids>>
    /\ UNCHANGED threadVars
    /\ UNCHANGED estVars
    /\ UNCHANGED tailerVars
    /\ UNCHANGED flushVars
    /\ UNCHANGED handlerVars
    /\ UNCHANGED <<configVars, textVars, udpVars>>

\* db.get_latest_log() when the query raises: the exception is logged
CallGetLatestLogFails ==
    /\ dbFaults < MaxDbFaults
    /\ dbFaults' = dbFaults + 1
    /\ got' = LatestLogReturned(TRUE)
    /\ UNCHANGED <<sink, latest, cur, records, frames, log_frame_ids>>
    /\ UNCHANGED threadVars
    /\ UNCHANGED estVars
    /\ UNCHANGED tailerVars
    /\ UNCHANGED handlerVars
    /\ UNCHANGED <<configVars, textVars, udpVars>>

\* db.get_latest_frame_number()
CallGetLatestFrameNumber ==
    /\ got' = [op |-> "get_latest_frame_number", value |-> GetLatestFrameNumber(FALSE),
               frame_id |-> 0]
    /\ UNCHANGED <<frames, log_frame_ids>>
    /\ UNCHANGED threadVars
    /\ UNCHANGED estVars
    /\ UNCHANGED tailerVars
    /\ UNCHANGED flushVars
    /\ UNCHANGED handlerVars
    /\ UNCHANGED <<configVars, textVars, udpVars>>

\* ---------------------------------------------------------------- insert_frame_objects
\* the objects of a call or of a packet, by their names: the k first names
ObjectNames(k) == [j \in 1 .. k |-> j]

\* what insert_frame(timestamp, frame_id) returns: the id, or None (0) when
\* the id is in the table already (the commit fails and the error is logged)
FrameIdReturned(frame_id) ==
    LET id == IF frame_id = 0 THEN NextFrameId ELSE frame_id
    IN  IF \E k \in 1 .. Len(frames) : frames[k] = id THEN 0 ELSE id

\* the frames table after insert_frame(timestamp, frame_id)
FramesAfterInsert(frame_id) ==
    IF FrameIdReturned(frame_id) = 0 THEN frames
    ELSE Append(frames, FrameIdReturned(frame_id))

\* the objects table after insert_frame_objects(frame_number, objs):
\* frame_id = self.insert_frame(now, frame_number); for obj in objects:
\* self.insert_object(frame_id, ...)
ObjectsAfterInsert(frame_number, objs) ==
    objects \o [j \in 1 .. Len(objs) |->
                   [frame_id |-> FrameIdReturned(frame_number), name |-> objs[j]]]

\* db.insert_frame_objects(frame_number, objects)
InsertFrameObjects(frame_number, objs) ==
    /\ Len(objects) + Len(objs) <= MaxPackets * MaxItems
    /\ frames' = FramesAfterInsert(frame_number)
    /\ objects' = ObjectsAfterInsert(frame_number, objs)
    /\ got' = [op |-> "insert_frame_objects", value |-> 0, frame_id |-> 0]
    /\ UNCHANGED <<log_frame_ids, receiver>>
    /\ UNCHANGED threadVars
    /\ UNCHANGED estVars
    /\ UNCHANGED tailerVars
    /\ UNCHANGED flushVars
    /\ UNCHANGED handlerVars
    /\ UNCHANGED <<configVars, textVars>>

\* ---------------------------------------------------------------- UDPPacketReceiver
\* A packet is given by what process_packet reads of it: whether it is a bytes
\* object, its length, the frame number and the item count of its header.
PacketLens ==
    {0, MinPacketLen - 1, MinPacketLen,
     HeaderLen + MaxItems * ObjectLen - 1, HeaderLen + MaxItems * ObjectLen}

Datagrams ==
    {[bytes |-> TRUE, len |-> l, frame_number |-> n, items_in_block |-> k] :
        l \in PacketLens, n \in 1 .. MaxFrames, k \in 0 .. MaxItems}

NotBytes == [bytes |-> FALSE, len |-> 0, frame_number |-> 1, items_in_block |-> 0]

\* process_packet(data): the exception raised or "ok", whether self.count was
\* increased before, and what is returned
ProcessPacket(data) ==
    IF ~data.bytes \/ data.len < MinPacketLen
      THEN [kind |-> "ValueError", counted |-> FALSE, frame_number |-> 0, objects |-> <<>>]
    ELSE IF \E i \in 1 .. data.items_in_block : HeaderLen + i * ObjectLen > data.len
      THEN [kind |-> "struct.error", counted |-> TRUE, frame_number |-> 0, objects |-> <<>>]
    ELSE [kind |-> "ok", counted |-> TRUE, frame_number |-> data.frame_number,
          objects |-> ObjectNames(data.items_in_block)]

\* the receiver after a call of process_packet
Processed(data) ==
    [receiver EXCEPT !.count = IF ProcessPacket(data).counted THEN @ + 1 ELSE @,
                     !.outcome = ProcessPacket(data).kind]

\* udp_receiver.start(): the listen thread
ReceiverStart ==
    /\ receiver.thread = "none"
    /\ receiver' = [receiver EXCEPT !.thread = "listening"]
    /\ UNCHANGED objects
    /\ UNCHANGED threadVars
    /\ UNCHANGED estVars
    /\ UNCHANGED tailerVars
    /\ UNCHANGED flushVars
    /\ UNCHANGED handlerVars
    /\ UNCHANGED <<configVars, textVars, storeVars>>

\* receiver.process_packet(data), called directly
CallProcessPacket(data) ==
    /\ receiver.count < MaxPackets
    /\ receiver' = Processed(data)
    /\ UNCHANGED objects
    /\ UNCHANGED threadVars
    /\ UNCHANGED estVars
    /\ UNCHANGED tailerVars
    /\ UNCHANGED flushVars
    /\ UNCHANGED handlerVars
    /\ UNCHANGED <<configVars, textVars, storeVars>>

\* listen, one turn of the loop with self.running true: recvfrom returns a
\* datagram, process_packet, insert_frame_objects; an exception of
\* process_packet leaves listen and ends the thread
ListenReceives(data) ==
    /\ receiver.thread = "listening"
    /\ receiver.running
    /\ receiver.count < MaxPackets
    /\ IF ProcessPacket(data).kind = "ok"
         THEN /\ receiver' = Processed(data)
              /\ frames' = FramesAfterInsert(ProcessPacket(data).frame_number)
              /\ objects' = ObjectsAfterInsert(ProcessPacket(data).frame_number,
                                               ProcessPacket(data).objects)
              /\ got' = [op |-> "insert_frame_objects", value |-> 0, frame_id |-> 0]
         ELSE /\ receiver' = [Processed(data) EXCEPT !.thread = "dead"]
              /\ UNCHANGED <<frames, objects, got>>
    /\ UNCHANGED log_frame_ids
    /\ UNCHANGED threadVars
    /\ UNCHANGED estVars
    /\ UNCHANGED tailerVars
    /\ UNCHANGED flushVars
    /\ UNCHANGED handlerVars
    /\ UNCHANGED <<configVars, textVars>>

\* listen: while self.running is false at the test
ListenEnds ==
    /\ receiver.thread = "listening"
    /\ ~receiver.running
    /\ receiver' = [receiver EXCEPT !.thread = "done"]
    /\ UNCHANGED objects
    /\ UNCHANGED threadVars
    /\ UNCHANGED estVars
    /\ UNCHANGED tailerVars
    /\ UNCHANGED flushVars
    /\ UNCHANGED handlerVars
    /\ UNCHANGED <<configVars, textVars, storeVars>>

\* udp_receiver.stop(): self.running = False (the joins are not followed)
ReceiverStops ==
    /\ receiver.running
    /\ receiver.thread # "none"
    /\ receiver' = [receiver EXCEPT !.running = FALSE]
    /\ UNCHANGED objects
    /\ UNCHANGED threadVars
    /\ UNCHANGED estVars
    /\ UNCHANGED tailerVars
    /\ UNCHANGED flushVars
    /\ UNCHANGED handlerVars
    /\ UNCHANGED <<configVars, textVars, storeVars>>

\* ---------------------------------------------------------------- specification
Establish(t) ==
    \/ EstablishConnects(t)
    \/ EstablishFails(t)
    \/ EstablishLoadBackoff(t)
    \/ EstablishStoreBackoff(t)
    \/ EstablishExhausted(t)
    \/ EstablishReturnsFalse(t)

Main == StartThreads \/ StartTailThread \/ StartHeartbeatThread

Stop ==
    \/ StopClearsSignals
    \/ StopReadsLogThread
    \/ StopJoinedLogThread
    \/ StopJoinedHeartbeat
    \/ StopCloseRaises

Heartbeat ==
    \/ HeartbeatLoop
    \/ HeartbeatProbeSucceeds
    \/ HeartbeatProbeFails
    \/ HeartbeatProbeTimesOut
    \/ HeartbeatClearsTail
    \/ HeartbeatSleeps
    \/ HeartbeatReconnects
    \/ HeartbeatRestartsTail
    \/ HeartbeatInterval

RunTailFLogs(i) ==
    \/ TailBegins(i)
    \/ TailLoop(i)
    \/ TailSleeps(i)
    \/ TailReconnects(i)

Stream(i) ==
    \/ TailRunReturns(i)
    \/ TailRunRaises(i)

Flush(i) ==
    \/ FlushReadsLatest(i)
    \/ FlushReadFails(i)
    \/ FlushInserts(i)

Handler(i) ==
    \/ RemoteEmits(i)
    \/ HandlerWrite(i)
    \/ FlushLine(i)
    \/ FlushLineReadFails(i)
    \/ FlushRaises(i)
    \/ FlushEnds(i)

\* The tailer: the threads and the shared attributes.  What flush does while a
\* follow command runs touches the sink alone, so it is left to SinkSpec.
Next ==
    \/ Main
    \/ Stop
    \/ Heartbeat
    \/ ProbeWorkerEnds
    \/ \E t \in Threads : Establish(t)
    \/ \E i \in TailIds : RunTailFLogs(i)
    \/ \E i \in TailIds : Stream(i)

Spec == Init /\ [][Next]_vars


\* The sink under the tail threads the heartbeat starts: the follow commands
\* stream records, connections and follow commands do not fail, stop() is not
\* called.
SinkNext ==
    \/ Main
    \/ Heartbeat
    \/ \E t \in Threads : EstablishConnects(t)
    \/ \E i \in TailIds : TailBegins(i) \/ TailLoop(i) \/ TailRunReturns(i)
    \/ \E i \in TailIds : Flush(i)

SinkSpec == Init /\ [][SinkNext]_vars


\* One tail thread and the LogHandler of its follow commands: the remote
\* command produces lines, c.run delivers them in chunks cut anywhere, the
\* command may end and be run again.  Connections and probes do not fail,
\* stop() is not called.
HandlerNext ==
    \/ Main
    \/ \E t \in Threads : EstablishConnects(t)
    \/ \E i \in TailIds : TailBegins(i) \/ TailLoop(i) \/ TailRunReturns(i)
    \/ \E i \in TailIds : Handler(i)

HandlerSpec == Init /\ [][HandlerNext]_vars


\* `record` from its options on: the tailer is made or not, and when it is
\* made its first tail thread connects, follows and reconnects.  The
\* heartbeat is started and left at its first probe, stop() is not called.
ConfigNext ==
    \/ Record
    \/ Main
    \/ \E t \in Threads : Establish(t)
    \/ \E i \in TailIds : RunTailFLogs(i)
    \/ \E i \in TailIds : Stream(i)

ConfigSpec == ConfigInit /\ [][ConfigNext]_vars


\* parse_line called twice on a line, on a handler whose store receives logs
\* in between.
ParseNext ==
    \/ TakeLine
    \/ CallParseLine
    \/ \E ts \in 1 .. MaxTs : InsertLog(0, ts)

ParseSpec == Init /\ [][ParseNext]_vars


\* remove_ansi_colors called on a text.
AnsiNext == TakeText \/ CallRemoveAnsiColors

AnsiSpec == Init /\ [][AnsiNext]_vars


\* The DatabaseStorage under any sequence of its insert and latest calls; the
\* query of get_latest_log may raise.
StoreNext ==
    \/ \E f \in 0 .. MaxFrames, ts \in 1 .. MaxTs : InsertLog(f, ts)
    \/ \E f \in 0 .. MaxFrames : InsertFrame(f)
    \/ CallGetLatestLog
    \/ CallGetLatestLogFails
    \/ CallGetLatestFrameNumber

StoreSpec == Init /\ [][StoreNext]_vars


\* One tail thread and its LogHandler as in HandlerSpec, with stop() called at
\* any moment after start_threads: the flags are cleared; the joins of stop()
\* are not followed.
RerunNext ==
    \/ HandlerNext
    \/ StopClearsSignals

RerunSpec == Init /\ [][RerunNext]_vars


\* The frames and objects tables under any sequence of insert_frame and
\* insert_frame_objects calls.
ObjectsNext ==
    \/ \E f \in 0 .. MaxFrames : InsertFrame(f)
    \/ \E n \in 1 .. MaxFrames, k \in 0 .. MaxItems : InsertFrameObjects(n, ObjectNames(k))

ObjectsSpec == Init /\ [][ObjectsNext]_vars


\* The telemetry receiver: process_packet called directly, and the listen
\* thread receiving datagrams and storing them, until stop().
ReceiverNext ==
    \/ ReceiverStart
    \/ \E d \in Datagrams \cup {NotBytes} : CallProcessPacket(d)
    \/ \E d \in Datagrams : ListenReceives(d)
    \/ ListenEnds
    \/ ReceiverStops

ReceiverSpec == Init /\ [][ReceiverNext]_vars


\* The same tailer under fair scheduling: a thread that can take a step of its
\* own code eventually takes one.  Nothing obliges the caller to call stop(),
\* the follow command to end, or a probe worker left behind to end.
FairSpec ==
    /\ Init
    /\ [][Next]_vars
    /\ WF_vars(Main)
    /\ WF_vars(Heartbeat)
    /\ \A t \in Threads : WF_vars(Establish(t))
    /\ \A i \in TailIds : WF_vars(RunTailFLogs(i))

\* FairSpec, and a caller that, once inside stop(), takes every step of stop()
\* that it can take: a join returns when its thread has ended.
StopFairSpec ==
    /\ FairSpec
    /\ WF_vars(StopReadsLogThread \/ StopJoinedLogThread \/ StopJoinedHeartbeat)


\* ---------------------------------------------------------------- claims
TailStreaming == \E i \in TailIds : Streaming(i)

\* C1: at most one tail loop is alive and streaming at any time.
C1_AtMostOneTailLoop == Cardinality({i \in TailIds : Streaming(i)}) <= 1

Increasing(log) == \A k \in 1 .. (Len(log) - 1) : log[k] < log[k + 1]

\* C2: the records in the sink have strictly increasing device timestamps in
\* insertion order; stated here for the runs in which no sink query fails.
C2_SinkStrictlyIncreasing == dbFaults = 0 => Increasing(sink)

\* C2, whatever the sink queries do.
C2_SinkStrictlyIncreasingAlways == Increasing(sink)

\* C3: once stop() has returned, neither a tail loop nor the heartbeat loop
\* of the tailer is running.
C3_NoLoopAfterStop ==
    pc[MainT] = "stopped" => ~HbAlive /\ \A i \in TailIds : ~TailAlive(i)

\* C3, with the signals: after stop() tail_active and heartbeat_active are
\* false as well.
C3_StoppedIsQuiet ==
    pc[MainT] = "stopped" => ~tail_active /\ ~heartbeat_active /\ C3_NoLoopAfterStop

\* C4: a tail loop that was running when the tailing signal was turned false
\* never opens another follow command.
C4_SignalNotLost ==
    [][\A i \in TailIds : signalled[i] => ~(pc[i] # "run" /\ pc'[i] = "run")]_vars

\* C5: while heartbeat_active is true the heartbeat loop has not exited.
C5_HeartbeatNeverExits == heartbeat_active => HbAlive

\* no connection attempt and no probe fails any more
Healthy == connFaults = MaxConnectFaults /\ probeFaults = MaxProbeFaults

\* C6: once every connection attempt and every probe succeeds, and as long as
\* stop() is not called, a tail loop eventually runs the follow command.
C6_EventualRecovery ==
    [](Healthy /\ pc[MainT] = "started" => <>(TailStreaming \/ pc[MainT] # "started"))

\* C7: a probe that times out is handled as a failure, by exactly one
\* reconnect-and-restart cycle: one reset of the tailing signal, then one
\* establish_connection, then at most one tail restart.
C7_TimeoutOneCycle ==
    cycle.timedOut =>
        CASE pc[HbT] = "reset" ->
                 cycle.resets = 0 /\ cycle.establishes = 0 /\ cycle.restarts = 0
          [] pc[HbT] \in {"sleep", "reconnect"} ->
                 cycle.resets = 1 /\ cycle.establishes = 0 /\ cycle.restarts = 0
          [] pc[HbT] \in EstPcs \cup {"restart"} ->
                 cycle.resets = 1 /\ cycle.establishes = 1 /\ cycle.restarts = 0
          [] pc[HbT] = "interval" ->
                 cycle.resets = 1 /\ cycle.establishes = 1 /\ cycle.restarts <= 1
          [] OTHER -> FALSE

C7_Witness ==
    /\ cycle.timedOut
    /\ pc[HbT] = "interval"
    /\ cycle.resets = 1
    /\ cycle.establishes = 1
    /\ cycle.restarts = 1

\* C8: at most one establish_connection is in progress at any time.
C8_OneEstablish == Cardinality({t \in Threads : InEstablish(t)}) <= 1

Pow2(n) == IF n <= 0 THEN 1 ELSE 2 ^ n

\* C9: in every invocation of establish_connection the delay slept after the
\* k-th failed attempt (k = 0, 1, ...) is 5 * 2^k seconds.
C9_BackoffSeries ==
    \A t \in Threads :
        pc[t] = "est_sleep" => delay[t] = InitialBackoff * Pow2(retries[t] - 1)

\* C10: establish_connection makes no attempt beyond max_retries failed ones,
\* and it returns False exactly after max_retries failed attempts.
C10_Exhaustion ==
    \A t \in Threads :
        /\ retries[t] <= max_retries
        /\ pc[t] = "est_fail" => retries[t] = max_retries
        /\ pc[t] = "est_try" /\ retries[t] = max_retries =>
               ~ENABLED (EstablishConnects(t) \/ EstablishFails(t))

C10_Witness ==
    \E t \in Threads :
        /\ pc[t] = "est_fail"
        /\ retries[t] = max_retries
        /\ connFaults = max_retries

\* C11: no exception raised while the follow command runs ends a tail loop.
C11_TailLoopSurvives == \A i \in TailIds : pc[i] # "dead"

\* C12: a line that cannot be parsed is dropped and the lines after it are
\* still processed: a flush that has begun is running or has ended, it is never
\* abandoned with lines left in the buffer.
C12_UnparsableLineDropped == \A i \in TailIds : fpos[i] # 0 => pc[i] = "flush"

\* the iteration of flush on a line that parse_line returns a Log for
FlushesLog(i) ==
    /\ pc[i] = "flush"
    /\ fpos[i] \in 1 .. Len(cfo[i].buffer)
    /\ fpos'[i] = fpos[i] + 1
    /\ ParseLine(cfo[i].buffer[fpos[i]]).kind = "Log"

\* C13: flush inserts a parsed record if and only if the sink holds no record
\* or the record's timestamp is greater than that of the sink's last record.
C13_InsertIffNewer ==
    [][\A i \in TailIds :
          FlushesLog(i) =>
              LET ts == ParseLine(cfo[i].buffer[fpos[i]]).timestamp
              IN  IF sink = <<>> \/ ts > sink[Len(sink)]
                    THEN sink' = Append(sink, ts)
                    ELSE sink' = sink]_vars

\* the text of a list of lines, each one with its separator
RECURSIVE Joined(_)
Joined(lines) ==
    IF lines = <<>> THEN <<>>
    ELSE lines[1] \o <<NL>> \o Joined(SubSeq(lines, 2, Len(lines)))

NoSeparatorIn(s) == \A k \in 1 .. Len(s) : s[k] # NL

\* a call of write by thread i, and what it was given and what it produced
Writes(i) == pc[i] = "run" /\ pc'[i] = "flush"
WrittenChunk(i) == SubSeq(fed'[i], Len(fed[i]) + 1, Len(fed'[i]))
WrittenLines(i) == SubSeq(cfo'[i].buffer, Len(cfo[i].buffer) + 1, Len(cfo'[i].buffer))

\* the lines and the leftover are a reassembly of the text: together they are
\* the text, and no separator is inside a line or the leftover
Reassembles(text, lines, leftover) ==
    /\ Joined(lines) \o leftover = text
    /\ \A k \in 1 .. Len(lines) : NoSeparatorIn(lines[k])
    /\ NoSeparatorIn(leftover)

\* C14: when the text given to write ends with a line separator, the completed
\* lines are exactly the separator-terminated lines and the leftover is empty.
C14_TerminatedChunk ==
    [][\A i \in TailIds :
          Writes(i) /\ EndsWithNL(WrittenChunk(i)) =>
              /\ Reassembles(cfo[i].partial_line \o WrittenChunk(i), WrittenLines(i),
                             cfo'[i].partial_line)
              /\ cfo'[i].partial_line = <<>>]_vars

\* C15: when the chunk does not end with a line separator, every segment but
\* the last is a completed line, in order, and the last one is the leftover.
C15_UnterminatedChunk ==
    [][\A i \in TailIds :
          Writes(i) /\ ~EndsWithNL(WrittenChunk(i)) =>
              /\ Reassembles(cfo[i].partial_line \o WrittenChunk(i), WrittenLines(i),
                             cfo'[i].partial_line)
              /\ cfo'[i].partial_line # <<>>]_vars

\* a chunk with a complete line and the beginning of the next one was written
C15_Witness ==
    \E i \in TailIds :
        /\ pc[i] = "flush"
        /\ fpos[i] = 1
        /\ cfo[i].buffer # <<>>
        /\ cfo[i].partial_line # <<>>
        /\ ~EndsWithNL(fed[i])

\* C16: the chunks of a session give the lines and the leftover that the whole
\* text gives when written at once.
C16_ChunkingIndependent ==
    \A i \in TailIds :
        /\ emitted[i] = Write(EmptyHandler, fed[i]).buffer
        /\ cfo[i].partial_line = Write(EmptyHandler, fed[i]).partial_line

\* C17: a follow command that has been opened and has received nothing yet has
\* an empty partial line and an empty buffer.
C17_FreshHandlerPerSession ==
    \A i \in TailIds : pc[i] = "run" /\ fed[i] = <<>> => cfo[i] = EmptyHandler

\* a follow command was opened after one that left a partial line
C17_Witness ==
    \E i \in TailIds :
        /\ pc[i] = "run"
        /\ fed[i] = <<>>
        /\ dropped[i] # <<>>
        /\ cfo[i] = EmptyHandler

\* C18: within one session the records are inserted in the order their lines
\* were read.
C18_InsertedInReadOrder == \A i \in TailIds : Increasing(inserted[i])

\* two records of one chunk were inserted
C18_Witness ==
    \E i \in TailIds :
        /\ Len(inserted[i]) >= 2
        /\ Len(cfo[i].buffer) >= 2

\* C19: the delay slept before re-establishing the connection, by the tail loop
\* and by the heartbeat, is the initial backoff of 5 s.
C19_ReconnectDelayIsBase ==
    \A t \in TailIds \cup {HbT} : pc[t] = "reconnect" => delay[t] = InitialBackoff

\* C20: stop() never raises.
C20_StopNeverRaises == pc[MainT] # "stop_raised"

\* ---------------------------------------------------------------- C21
\* the heartbeat is between its clear of tail_active and the end of restart_tail
HeartbeatRecovering ==
    \/ pc[HbT] \in {"sleep", "reconnect", "restart"}
    \/ pc[HbT] \in EstPcs /\ ret[HbT] = "restart"

\* C21: the accesses to conn, tail_active and heartbeat_active are under one
\* synchronization discipline: while the heartbeat is inside its
\* check-then-act (from the clear of tail_active, through the re-establish, to
\* restart_tail's test of tail_active), no step of another thread writes
\* conn, tail_active or heartbeat_active.
C21_NoInterleavedWrite ==
    [][HeartbeatRecovering /\ pc'[HbT] = pc[HbT]
         => /\ conn' = conn
            /\ tail_active' = tail_active
            /\ heartbeat_active' = heartbeat_active]_vars

\* ---------------------------------------------------------------- C22
NothingConfigured ==
    /\ ~Truthy(project.target_log_path)
    /\ ~Truthy(project.target_docker_container)

\* C22: when neither a file path nor a container id is configured, no
\* RemoteLogTailer is created, no thread of it exists, no connection is
\* attempted and no follow command is chosen or run.
C22_NothingConfiguredNoStreaming ==
    NothingConfigured =>
        /\ pc[MainT] \in {"cli", "no_tailer"}
        /\ \A t \in Threads \ {MainT} : pc[t] = "none"
        /\ log_file = "None" /\ docker_container = "None"
        /\ conn = 0 /\ connFaults = 0
        /\ log_thread = 0 /\ ~heartbeat_thread
        /\ \A i \in TailIds : command[i] = NoCommand /\ emitted[i] = <<>>

C22_Witness == NothingConfigured /\ pc[MainT] = "no_tailer"

\* ---------------------------------------------------------------- C23
TailerExists == pc[MainT] \notin {"cli", "no_tailer"}

\* C23: in every configuration from which a tailer is created at most one of
\* log_file and docker_container is set, and the command followed is the
\* file-follow command exactly when the file path is set and the
\* container-log command with a backlog of 100 exactly when the container id
\* is set.
C23_TargetIsFileXorContainer ==
    TailerExists =>
        /\ ~(Truthy(log_file) /\ Truthy(docker_container))
        /\ \A i \in TailIds : command[i] # NoCommand =>
              /\ (command[i].program = "tail -f" /\ command[i].target = log_file)
                    <=> Truthy(log_file)
              /\ (/\ command[i].program = "docker logs -f -t"
                  /\ command[i].target = docker_container
                  /\ command[i].backlog = 100) <=> Truthy(docker_container)

\* ---------------------------------------------------------------- C24
\* the line parse_line matches: after remove_ansi_colors and strip
CleanLine == Strip(RemoveAnsiColors(log_line))

MatchersOf(l) == {k \in 1 .. 4 : PatternMatches(<<"a", "b", "c", "d">>[k], l)}

\* the first of a, b, c, d that matches, "none" when none does
FirstMatcher(l) ==
    IF MatchersOf(l) = {} THEN "none"
    ELSE <<"a", "b", "c", "d">>[CHOOSE k \in MatchersOf(l) : \A j \in MatchersOf(l) : k <= j]

\* C24: parse_line works from the first of the matchers a, b, c, d that
\* matches the line, even when a later one matches too, and returns None
\* exactly when none matches.
C24_FirstMatchWins ==
    \A k \in 1 .. Len(calls) :
        /\ calls[k].pattern = FirstMatcher(CleanLine)
        /\ calls[k].kind = "None" <=> MatchersOf(CleanLine) = {}

C24_Witness ==
    /\ Len(calls) > 0
    /\ Cardinality(MatchersOf(CleanLine)) > 1
    /\ calls[1].kind = "Log"
    /\ calls[1].pattern = "b"

\* ---------------------------------------------------------------- C25
\* what is written after the timestamp: the format of section 4.5 it is in,
\* its LEVEL token ("None" in format d) and its message
WrittenFields(r) ==
    CASE r = " INFO msg" -> [format |-> "a", level |-> "INFO", message |-> "msg"]
      [] r = " [ros-1] 1.5 INFO msg" -> [format |-> "b", level |-> "INFO", message |-> "msg"]
      [] r = " 2024-01-01 00:00:01.0000 INFO msg" ->
             [format |-> "c", level |-> "INFO", message |-> "msg"]
      [] r = " [ros-1] msg" -> [format |-> "d", level |-> "None", message |-> "msg"]
      [] r = " [ros-1] 1.5 WARN msg" -> [format |-> "b", level |-> "WARN", message |-> "msg"]

\* the instant a timestamp text denotes, in microseconds: the digits of the
\* fraction after the sixth are dropped
StampMicros(t) == StampFields(t).sec * 1000000 + Microseconds(StampFields(t).frac, 1)

\* the timestamp is a date, written as the format writes it: a with a space
\* and milliseconds, b, c and d with T, nanoseconds and Z
SupportedStamp(format, t) ==
    LET f == StampFields(t)
    IN  /\ f.month \in 1 .. 12
        /\ IF format = "a" THEN f.sep = " " /\ Len(f.frac) = 3 /\ ~f.z
                           ELSE f.sep = "T" /\ Len(f.frac) = 9 /\ f.z

InSupportedFormat(l) ==
    /\ Len(l) >= 2
    /\ l[1] \in Stamps
    /\ l[2] \in Rests
    /\ SupportedStamp(WrittenFields(l[2]).format, l[1])

\* C25: for a line in one of the four formats parse_line returns a Log with
\* the line's first timestamp, the LEVEL token written in the line (DEBUG in
\* format d, which has none) and the text after it as message.
C25_SupportedFormatsParsed ==
    \A k \in 1 .. Len(calls) :
        InSupportedFormat(CleanLine) =>
            LET w == WrittenFields(CleanLine[2])
            IN  /\ calls[k].kind = "Log"
                /\ calls[k].timestamp = StampMicros(CleanLine[1])
                /\ calls[k].level = (IF w.format = "d" THEN "DEBUG" ELSE w.level)
                /\ calls[k].message = <<w.message>> \o SubSeq(CleanLine, 3, Len(CleanLine))

\* ---------------------------------------------------------------- C26
\* C26: for every timestamp text a matcher accepts (a date of the calendar, in
\* T or space form, with or without Z, with any number of fraction digits) the
\* conversion returns the date-time, with the fraction cut to 6 digits.
C26_AcceptedTimestampConverts ==
    \A k \in 1 .. Len(calls) :
        (MatchersOf(CleanLine) # {} /\ StampFields(CleanLine[1]).month \in 1 .. 12)
            => /\ calls[k].kind = "Log"
               /\ calls[k].timestamp = StampMicros(CleanLine[1])

\* ---------------------------------------------------------------- C27
\* the text without its CSI sequences: ESC [, parameter bytes, intermediate
\* bytes, a final byte
WithoutCsi(t) == EscapeSub(t, 1, {"["})

\* C27: remove_ansi_colors takes out the CSI escape sequences and nothing
\* else.
C27_OnlyEscapeSequencesRemoved ==
    stripped.called => stripped.value = WithoutCsi(raw_text)

C29_LatestLogIsLastInserted ==
    got.op = "get_latest_log" =>
        IF sink = <<>>
          THEN got.value = 0 /\ got.frame_id = 0
          ELSE /\ got.value = sink[Len(sink)]
               /\ got.frame_id = log_frame_ids[Len(log_frame_ids)]

\* ---------------------------------------------------------------- C30
\* C30: get_latest_frame_number returns the frame number of the frame inserted
\* last, and None when no frame was inserted.
C30_LatestFrameIsLastInserted ==
    got.op = "get_latest_frame_number" =>
        got.value = (IF frames = <<>> THEN 0 ELSE frames[Len(frames)])

\* ---------------------------------------------------------------- C33
\* a step of a heartbeat cycle whose probe succeeded: the probe's return, and
\* the sleep that ends the cycle
SuccessfulCycleStep ==
    \/ pc[HbT] = "probe" /\ HeartbeatProbeSucceeds
    \/ pc[HbT] = "interval" /\ cycle = NoCycle /\ pc'[HbT] # "interval"

\* C33: a heartbeat cycle whose probe succeeds leaves tail_active, conn and
\* backoff_time unchanged, starts no thread and no connection attempt, and
\* goes on to the next cycle.
C33_SuccessfulProbeChangesNothing ==
    [][SuccessfulCycleStep
         => /\ pc'[HbT] \in {"interval", "loop"}
            /\ tail_active' = tail_active
            /\ conn' = conn
            /\ backoff_time' = backoff_time
            /\ log_thread' = log_thread
            /\ connFaults' = connFaults
            /\ retries' = retries
            /\ \A t \in Threads \ {HbT} : pc'[t] = pc[t]]_vars

C33_Witness ==
    /\ pc[HbT] = "interval"
    /\ cycle = NoCycle
    /\ tail_active
    /\ pc[MainT] = "started"

\* ---------------------------------------------------------------- C34
InsideStop == pc[MainT] \in {"stop_log", "join_log", "join_hb"}

\* C34: stop(), once called, eventually returns (or ends).
C34_StopReturns == InsideStop ~> pc[MainT] \in {"stopped", "stop_raised"}

\* ---------------------------------------------------------------- C35
\* C35: tail_active is true only if a tail thread is alive in
\* run_tail_f_logs.
C35_FlagImpliesLiveTail == tail_active => \E i \in TailIds : TailAlive(i)

\* ---------------------------------------------------------------- C36
NothingStarted ==
    /\ log_thread = 0
    /\ ~heartbeat_thread
    /\ ~tail_active
    /\ ~heartbeat_active
    /\ \A t \in Threads \ {MainT} : pc[t] = "none"

\* C36: when the initial establish_connection fails, start_threads returns
\* with no thread started and both flags false, and afterwards no connection
\* attempt is made (start_threads is not called again).
C36_FailedStartStartsNothing ==
    [][/\ (pc[MainT] = "est_fail" /\ pc'[MainT] # "est_fail")
            => pc'[MainT] = "start_failed"
       /\ pc[MainT] = "start_failed"
            => /\ NothingStarted
               /\ conn = 0
               /\ conn' = conn
               /\ connFaults' = connFaults
               /\ \A t \in Threads : pc'[t] \notin EstPcs]_vars

C36_Witness ==
    /\ pc[MainT] = "start_failed"
    /\ connFaults = max_retries

\* ---------------------------------------------------------------- C37
\* C37: whenever a tail loop or the heartbeat loop is executing, conn is set.
C37_LoopsHaveConnection ==
    ((\E i \in TailIds : TailAlive(i)) \/ HbAlive) => conn # 0

C37_Witness ==
    /\ HbAlive
    /\ \E i \in TailIds : pc[i] = "run"
    /\ connFaults = MaxConnectFaults
    /\ conn # 0

C39_CommandRunAgain ==
    [][\A i \in TailIds :
          (pc[i] = "loop" /\ pc'[i] # "loop")
            => /\ pc'[i] = (IF tail_active THEN "run" ELSE "done")
               /\ conn' = conn
               /\ delay'[i] = delay[i]
               /\ connFaults' = connFaults]_vars

C39_Witness ==
    \E i \in TailIds :
        /\ pc[i] = "run"
        /\ tail_active
        /\ writes > 0
        /\ emitted[i] = <<>>
        /\ fed[i] = <<>>

\* ---------------------------------------------------------------- C31
\* C31: insert_frame_objects(n, objects) stores frame n and then every object
\* of the list once, in list order, each referring to frame n, also when n is
\* in the frames table already.
C31_ObjectsReferToTheirFrame ==
    [][\A n \in 1 .. MaxFrames, k \in 0 .. MaxItems :
          InsertFrameObjects(n, ObjectNames(k))
            => /\ \E j \in 1 .. Len(frames') : frames'[j] = n
               /\ objects' = objects \o [j \in 1 .. k |-> [frame_id |-> n, name |-> j]]]_vars

\* ---------------------------------------------------------------- C32
\* the input is not a bytes object, or is too short for the objects it
\* declares, or is shorter than the least length
TooShortOrNotBytes(d) ==
    \/ ~d.bytes
    \/ d.len < MinPacketLen
    \/ d.len < HeaderLen + d.items_in_block * ObjectLen

\* C32: process_packet raises ValueError for every input that is not bytes or
\* is too short for the objects it declares, and does not count it.
C32_ShortPacketRejected ==
    [][\A d \in Datagrams \cup {NotBytes} :
          (CallProcessPacket(d) /\ TooShortOrNotBytes(d))
            => /\ receiver'.outcome = "ValueError"
               /\ receiver'.count = receiver.count]_vars

\* ---------------------------------------------------------------- C40
\* C40: while running is true the listen loop keeps running: a datagram
\* process_packet rejects does not end it.
C40_ListenLoopSurvives ==
    (receiver.running /\ receiver.thread # "none") => receiver.thread = "listening"

====
